---- MODULE Spec2Model ----
(***************************************************************************)
(* Model of find_char_limit.py: the two-phase search for the largest       *)
(* prompt length an endpoint accepts.  Phase 1 (find_char_limit) walks     *)
(* down from STARTING_LENGTH in steps of STEP_SIZE until a probe succeeds; *)
(* Phase 2 (binary_search) bisects between the succeeded length and the    *)
(* last failed one.  Every await of the coroutine is a state of pc.        *)
(***************************************************************************)
EXTENDS Integers, Sequences, FiniteSets

VARIABLES
    pc,                   \* position of the coroutine
    limit,                \* the endpoint: its true limit, or NoLimit (answers anything)
    outstanding,          \* number of requests sent and not yet answered
    log,                  \* the probes answered so far: [len, ok, phase]
    current_length,       \* find_char_limit locals
    last_success_length,
    first_failure_length,
    exact_limit,
    min_len,              \* binary_search parameters and locals
    max_len,
    step,
    mid,
    last_success,
    reported,             \* the length printed as the maximum working limit
    exit_code,            \* None while the process runs
    API_KEY,              \* the module-level key, "" when not set
    sigint,               \* an interrupt was delivered to the process
    delays,               \* number of inter-probe sleeps completed
    req_length,           \* test_request on its own: its length argument,
    prompt,               \*   the prompt it generated,
    response,             \*   what the endpoint does with the request,
    result                \*   and what the call ends in

vars == << pc, limit, outstanding, log, current_length, last_success_length,
           first_failure_length, exact_limit, min_len, max_len, step, mid,
           last_success, reported, exit_code, API_KEY, sigint, delays,
           req_length, prompt, response, result >>

\* Program constants.
STARTING_LENGTH == 500000
STEP_SIZE == 10000
MIN_LENGTH == 1000
PRECISION_STEP == 500

\* Python's None, for the integer-valued locals.
None == -1

\* An endpoint with no true limit: every probe may succeed or fail.
NoLimit == -2

\* Bounds of the model.
LimitSpan == 10001        \* true limits STARTING_LENGTH - LimitSpan .. STARTING_LENGTH
MaxEntryLen == 12         \* binary_search alone: 0 <= min_len < max_len <= MaxEntryLen
MaxStep == 3              \* binary_search alone: 1 <= step <= MaxStep
MaxPromptLen == 120       \* test_request alone: 0 <= length <= MaxPromptLen

TrueLimits == {0} \cup ((STARTING_LENGTH - LimitSpan) .. STARTING_LENGTH)

\* The values of API_KEY: not set, or a key.
Keys == {"", "sk-lmab"}

\* What load_config can find in config.json.
Configs == {"missing", "invalid_json", "no_api_keys", "has_key", "empty_key",
            "entry_without_key"}

\* load_config: the first key of the file is taken only if API_KEY is not set
\* and the file has a non-empty api_keys list.
LoadedKey(static, config) ==
    IF static = "" /\ config = "has_key" THEN "sk-lmab"
    ELSE IF static = "" /\ config = "empty_key" THEN ""
    ELSE static

\* load_config: a first entry without "key" raises KeyError, which the except
\* clause (FileNotFoundError, JSONDecodeError, IndexError) lets through.
ConfigRaises(static, config) == static = "" /\ config = "entry_without_key"

\* Mutant: the key is compared with None instead of tested for emptiness.
ApiKeyMissingIsNone(key) == key = "None"

\* if not API_KEY
ApiKeyMissing(key) == key = ""

\* base_text of generate_test_prompt, one element per character.
base_text ==
    << "a", "b", "c", "d", "e", "f", "g", "h", "i", "j", "k", "l", "m",
       "n", "o", "p", "q", "r", "s", "t", "u", "v", "w", "x", "y", "z",
       "0", "1", "2", "3", "4", "5", "6", "7", "8", "9", " " >>

\* base_text * repeat_count
RECURSIVE Repeat(_, _)

Repeat(text, count) == IF count <= 0 THEN << >> ELSE text \o Repeat(text, count - 1)

\* Mutant: the remainder is dropped.
GenerateTestPromptNoRemainder(length) == Repeat(base_text, length \div Len(base_text))

\* Mutant: the remainder is taken from the end of base_text.
GenerateTestPromptTailRemainder(length) ==
    Repeat(base_text, length \div Len(base_text))
      \o SubSeq(base_text, Len(base_text) - (length % Len(base_text)) + 1, Len(base_text))

\* generate_test_prompt
GenerateTestPrompt(length) ==
    LET repeat_count == length \div Len(base_text)
        remainder    == length % Len(base_text)
    IN  Repeat(base_text, repeat_count) \o SubSeq(base_text, 1, remainder)

\* What one call of test_request can end in.
Outcomes == {"status_200", "status_200_bad_body", "status_other", "timeout", "transport_error"}

\* test_request: the boolean it returns for an outcome.  A 200 whose body
\* cannot be decoded raises inside the try block and is caught by the
\* generic handler.
TestRequestResult(outcome) == outcome = "status_200"

\* The exception the try block of test_request raises for an event: a 200
\* with an undecodable body raises in response.json() or in the indexing of
\* choices, a non-200 status raises nothing (raise_for_status is not called),
\* an interrupt during the wait raises KeyboardInterrupt (or CancelledError),
\* which is not an Exception.
Raised(event) ==
    CASE event = "status_200"          -> "none"
      [] event = "status_other"        -> "none"
      [] event = "status_200_bad_body" -> "Exception"
      [] event = "timeout"             -> "TimeoutException"
      [] event = "transport_error"     -> "Exception"
      [] event = "interrupt"           -> "KeyboardInterrupt"

\* Mutant: the timeout and generic handlers are missing.
CaughtStatusErrorOnly(exc) == exc = "HTTPStatusError"

\* Mutant: a bare except.
CaughtEverything(exc) == TRUE

\* The except clauses of test_request: TimeoutException, HTTPStatusError, Exception.
Caught(exc) == exc \in {"TimeoutException", "HTTPStatusError", "Exception"}

\* What a call of test_request ends in: it returns True, returns False, or
\* lets the exception through to its caller.
ProbeEffect(event) ==
    IF Raised(event) # "none" /\ ~Caught(Raised(event)) THEN "raised"
    ELSE IF TestRequestResult(event) THEN "True"
    ELSE "False"

\* The outcomes the endpoint can produce for a prompt of the given length.
EndpointOutcomes(length) ==
    IF limit = NoLimit THEN Outcomes
    ELSE IF length <= limit THEN {"status_200"}
    ELSE Outcomes \ {"status_200"}

\* Python truthiness of an Optional[int].
Truthy(x) == x # None /\ x # 0

\* Mutant: the loop runs down to zero instead of MIN_LENGTH.
Phase1ContinueToZero(length) == length >= 0

\* while current_length >= MIN_LENGTH
Phase1Continue(length) == length >= MIN_LENGTH

\* Mutant: the descent uses the wrong constant.
Phase1NextLengthWrongStep(length) == length - MIN_LENGTH

\* current_length -= STEP_SIZE
Phase1NextLength(length) == length - STEP_SIZE

\* Mutant: only the first failure is kept.
Phase1FailureKeepFirst(prev, length) == IF prev = None THEN length ELSE prev

\* first_failure_length = current_length
Phase1Failure(prev, length) == length

\* Mutant: only the success is tested.
Phase2WantedSuccessOnly(failure, success) == Truthy(success)

\* if first_failure_length and last_success_length
Phase2Wanted(failure, success) == Truthy(failure) /\ Truthy(success)

\* Mutant: the loop stops one short.
BsContinueOffByOne(lo, hi, s) == hi - lo > s + 1

\* while max_len - min_len > step
BsContinue(lo, hi, s) == hi - lo > s

\* Mutant: the lower bound itself is probed.
MidpointAtLowerBound(lo, hi) == lo

\* mid = (min_len + max_len) // 2
Midpoint(lo, hi) == (lo + hi) \div 2

\* Mutant: the new lower bound is returned instead of the tested length.
BsSuccessLastSuccessNewMin(m, prev) == m + 1

\* Mutant: the success is not recorded.
BsSuccessLastSuccessForgotten(m, prev) == prev

\* success branch of binary_search
BsSuccessLastSuccess(m, prev) == m

BsSuccessMinLen(m) == m + 1

\* failure branch of binary_search
BsFailureMaxLen(m) == m - 1

Init ==
    /\ pc = "start"
    /\ API_KEY \in Keys
    /\ sigint = FALSE
    /\ delays = 0
    /\ req_length = None
    /\ prompt = << >>
    /\ response = "none"
    /\ result = "none"
    /\ limit \in TrueLimits \cup {NoLimit}
    /\ outstanding = 0
    /\ log = << >>
    /\ current_length = None
    /\ last_success_length = None
    /\ first_failure_length = None
    /\ exact_limit = None
    /\ min_len = None
    /\ max_len = None
    /\ step = None
    /\ mid = None
    /\ last_success = None
    /\ reported = None
    /\ exit_code = None

\* binary_search called on its own: any bounds, any step, any endpoint answers.
\* The caller's arguments stay in last_success_length and first_failure_length.
InitBS ==
    /\ pc = "bs_loop"
    /\ API_KEY = "sk-lmab"
    /\ sigint = FALSE
    /\ delays = 0
    /\ req_length = None
    /\ prompt = << >>
    /\ response = "none"
    /\ result = "none"
    /\ limit = NoLimit
    /\ outstanding = 0
    /\ log = << >>
    /\ current_length = None
    /\ last_success_length \in 0 .. (MaxEntryLen - 1)
    /\ first_failure_length \in (last_success_length + 1) .. MaxEntryLen
    /\ exact_limit = None
    /\ min_len = last_success_length
    /\ max_len = first_failure_length
    /\ step \in 1 .. MaxStep
    /\ mid = None
    /\ last_success = min_len
    /\ reported = None
    /\ exit_code = None

\* What the search never touches.
envUnchanged == UNCHANGED << API_KEY, sigint, req_length, prompt, response, result >>

p1Unchanged == UNCHANGED << limit, exact_limit, min_len, max_len, step, mid,
                            last_success, reported, exit_code >>

bsUnchanged == UNCHANGED << limit, current_length, last_success_length,
                            first_failure_length, exact_limit, reported, exit_code >>

\* An exception leaves find_char_limit and asyncio.run: the interpreter prints
\* the traceback and exits with status 1; the client is closed on the way out.
Crash ==
    /\ pc' = "crashed"
    /\ exit_code' = 1
    /\ outstanding' = 0
    /\ UNCHANGED << limit, log, current_length, last_success_length,
                    first_failure_length, exact_limit, min_len, max_len, step, mid,
                    last_success, reported, API_KEY, delays, req_length, prompt,
                    response, result >>

\* load_config: API_KEY is filled from config.json if it is not set.  The
\* models.json half only prints.
LoadConfig ==
    /\ pc = "start"
    /\ \E config \in Configs :
         IF ConfigRaises(API_KEY, config)
         THEN Crash
         ELSE /\ API_KEY' = LoadedKey(API_KEY, config)
              /\ pc' = "config_loaded"
              /\ UNCHANGED << limit, outstanding, log, current_length,
                              last_success_length, first_failure_length,
                              exact_limit, min_len, max_len, step, mid,
                              last_success, reported, exit_code, delays,
                              req_length, prompt, response, result >>
    /\ UNCHANGED sigint

\* if not API_KEY: sys.exit(1)
NoApiKey ==
    /\ pc = "config_loaded"
    /\ ApiKeyMissing(API_KEY)
    /\ pc' = "exited"
    /\ exit_code' = 1
    /\ UNCHANGED << limit, outstanding, log, current_length, last_success_length,
                    first_failure_length, exact_limit, min_len, max_len, step, mid,
                    last_success, reported, delays >>
    /\ envUnchanged

\* The key is there: Phase 1 starts at STARTING_LENGTH.
StartPhase1 ==
    /\ pc = "config_loaded"
    /\ ~ApiKeyMissing(API_KEY)
    /\ current_length' = STARTING_LENGTH
    /\ last_success_length' = None
    /\ first_failure_length' = None
    /\ pc' = "p1_loop"
    /\ UNCHANGED << limit, outstanding, log, exact_limit, min_len, max_len, step,
                    mid, last_success, reported, exit_code, delays >>
    /\ envUnchanged

\* Phase 1, loop test true: test_request(current_length) sends its request.
P1Test ==
    /\ pc = "p1_loop"
    /\ Phase1Continue(current_length)
    /\ pc' = "p1_probe"
    /\ outstanding' = outstanding + 1
    /\ UNCHANGED << log, current_length, last_success_length, first_failure_length >>
    /\ p1Unchanged
    /\ UNCHANGED delays
    /\ envUnchanged

\* Phase 1, loop test false: fall through to the test of last_success_length.
P1LoopExit ==
    /\ pc = "p1_loop"
    /\ ~Phase1Continue(current_length)
    /\ pc' = "p1_end"
    /\ UNCHANGED << outstanding, log, current_length, last_success_length,
                    first_failure_length >>
    /\ p1Unchanged
    /\ UNCHANGED delays
    /\ envUnchanged

\* Phase 1, test_request has returned: success breaks out of the loop, failure
\* records the length, steps down and goes to the sleep.
P1Returned(success) ==
    /\ log' = Append(log, [len |-> current_length, ok |-> success, phase |-> 1])
    /\ IF success
       THEN /\ last_success_length' = current_length
            /\ pc' = "p1_end"
            /\ UNCHANGED << first_failure_length, current_length >>
       ELSE /\ first_failure_length' = Phase1Failure(first_failure_length, current_length)
            /\ current_length' = Phase1NextLength(current_length)
            /\ pc' = "p1_sleep"
            /\ UNCHANGED last_success_length
    /\ outstanding' = outstanding - 1
    /\ p1Unchanged
    /\ UNCHANGED << API_KEY, delays, req_length, prompt, response, result >>

\* Phase 1: the request is answered.
P1Response ==
    /\ pc = "p1_probe"
    /\ \E outcome \in EndpointOutcomes(current_length) :
         IF ProbeEffect(outcome) = "raised"
         THEN Crash
         ELSE P1Returned(ProbeEffect(outcome) = "True")
    /\ UNCHANGED sigint

\* Phase 1: asyncio.sleep(2) is over.
P1Sleep ==
    /\ pc = "p1_sleep"
    /\ pc' = "p1_loop"
    /\ UNCHANGED << outstanding, log, current_length, last_success_length,
                    first_failure_length >>
    /\ p1Unchanged
    /\ delays' = delays + 1
    /\ envUnchanged

\* No probe succeeded: report that and return.
AllFailed ==
    /\ pc = "p1_end"
    /\ last_success_length = None
    /\ pc' = "done"
    /\ exit_code' = 0
    /\ UNCHANGED << limit, outstanding, log, current_length, last_success_length,
                    first_failure_length, exact_limit, min_len, max_len, step, mid,
                    last_success, reported >>
    /\ UNCHANGED delays
    /\ envUnchanged

\* Both lengths are set: call binary_search(last_success_length,
\* first_failure_length, step=500); its first statement sets last_success.
CallBinarySearch ==
    /\ pc = "p1_end"
    /\ last_success_length # None
    /\ Phase2Wanted(first_failure_length, last_success_length)
    /\ min_len' = last_success_length
    /\ max_len' = first_failure_length
    /\ step' = PRECISION_STEP
    /\ last_success' = last_success_length
    /\ pc' = "bs_loop"
    /\ UNCHANGED << limit, outstanding, log, current_length, last_success_length,
                    first_failure_length, exact_limit, mid, reported, exit_code >>
    /\ UNCHANGED delays
    /\ envUnchanged

\* A success without a failure before it: Phase 2 is skipped.
SkipPhase2 ==
    /\ pc = "p1_end"
    /\ last_success_length # None
    /\ ~Phase2Wanted(first_failure_length, last_success_length)
    /\ pc' = "report"
    /\ UNCHANGED << limit, outstanding, log, current_length, last_success_length,
                    first_failure_length, exact_limit, min_len, max_len, step, mid,
                    last_success, reported, exit_code >>
    /\ UNCHANGED delays
    /\ envUnchanged

\* binary_search, loop test true: compute mid, test_request(mid) sends its request.
BsTest ==
    /\ pc = "bs_loop"
    /\ BsContinue(min_len, max_len, step)
    /\ mid' = Midpoint(min_len, max_len)
    /\ outstanding' = outstanding + 1
    /\ pc' = "bs_probe"
    /\ UNCHANGED << log, min_len, max_len, step, last_success >>
    /\ bsUnchanged
    /\ UNCHANGED delays
    /\ envUnchanged

\* binary_search, test_request has returned: the range is narrowed.
BsReturned(success) ==
    /\ log' = Append(log, [len |-> mid, ok |-> success, phase |-> 2])
    /\ IF success
       THEN /\ last_success' = BsSuccessLastSuccess(mid, last_success)
            /\ min_len' = BsSuccessMinLen(mid)
            /\ UNCHANGED max_len
       ELSE /\ max_len' = BsFailureMaxLen(mid)
            /\ UNCHANGED << min_len, last_success >>
    /\ outstanding' = outstanding - 1
    /\ pc' = "bs_sleep"
    /\ UNCHANGED << step, mid >>
    /\ bsUnchanged
    /\ UNCHANGED << API_KEY, delays, req_length, prompt, response, result >>

\* binary_search: the request is answered.
BsResponse ==
    /\ pc = "bs_probe"
    /\ \E outcome \in EndpointOutcomes(mid) :
         IF ProbeEffect(outcome) = "raised"
         THEN Crash
         ELSE BsReturned(ProbeEffect(outcome) = "True")
    /\ UNCHANGED sigint

\* binary_search: asyncio.sleep(2) is over.
BsSleep ==
    /\ pc = "bs_sleep"
    /\ pc' = "bs_loop"
    /\ UNCHANGED << outstanding, log, min_len, max_len, step, mid, last_success >>
    /\ bsUnchanged
    /\ delays' = delays + 1
    /\ envUnchanged

\* binary_search, loop test false: return last_success, bound to exact_limit.
BsReturn ==
    /\ pc = "bs_loop"
    /\ ~BsContinue(min_len, max_len, step)
    /\ exact_limit' = last_success
    /\ pc' = "bs_ret"
    /\ UNCHANGED << limit, outstanding, log, current_length, last_success_length,
                    first_failure_length, min_len, max_len, step, mid, last_success,
                    reported, exit_code >>
    /\ UNCHANGED delays
    /\ envUnchanged

\* last_success_length = exact_limit
P2Assign ==
    /\ pc = "bs_ret"
    /\ last_success_length' = exact_limit
    /\ pc' = "report"
    /\ UNCHANGED << limit, outstanding, log, current_length, first_failure_length,
                    exact_limit, min_len, max_len, step, mid, last_success,
                    reported, exit_code >>
    /\ UNCHANGED delays
    /\ envUnchanged

\* The RESULTS block; the coroutine returns and the process ends.
Report ==
    /\ pc = "report"
    /\ reported' = last_success_length
    /\ exit_code' = 0
    /\ pc' = "done"
    /\ UNCHANGED << limit, outstanding, log, current_length, last_success_length,
                    first_failure_length, exact_limit, min_len, max_len, step, mid,
                    last_success >>
    /\ UNCHANGED delays
    /\ envUnchanged

\* The states in which the process is over.
Terminal == {"done", "exited", "crashed", "interrupted", "req_done"}

\* SIGINT while the process runs.  During a probe the exception passes the
\* except clauses of test_request, unless one of them catches it and turns it
\* into a failed probe; everywhere else it goes straight to the handler of
\* __main__, which prints the notice and calls sys.exit(0).
Interrupt ==
    /\ pc \notin Terminal
    /\ sigint' = TRUE
    /\ IF pc = "p1_probe" /\ ProbeEffect("interrupt") # "raised"
       THEN P1Returned(FALSE)
       ELSE IF pc = "bs_probe" /\ ProbeEffect("interrupt") # "raised"
       THEN BsReturned(FALSE)
       ELSE /\ pc' = "interrupted"
            /\ exit_code' = 0
            /\ outstanding' = 0
            /\ UNCHANGED << limit, log, current_length, last_success_length,
                            first_failure_length, exact_limit, min_len, max_len,
                            step, mid, last_success, reported, API_KEY, delays,
                            req_length, prompt, response, result >>

searchUnchanged == UNCHANGED << limit, log, current_length, last_success_length,
                                first_failure_length, exact_limit, min_len, max_len,
                                step, mid, last_success, reported, API_KEY, sigint,
                                delays >>

\* test_request called on its own: any length, any behaviour of the endpoint.
InitRequest ==
    /\ pc = "req_start"
    /\ req_length \in 0 .. MaxPromptLen
    /\ response \in Outcomes
    /\ prompt = << >>
    /\ result = "none"
    /\ API_KEY = "sk-lmab"
    /\ sigint = FALSE
    /\ delays = 0
    /\ limit = NoLimit
    /\ outstanding = 0
    /\ log = << >>
    /\ current_length = None
    /\ last_success_length = None
    /\ first_failure_length = None
    /\ exact_limit = None
    /\ min_len = None
    /\ max_len = None
    /\ step = None
    /\ mid = None
    /\ last_success = None
    /\ reported = None
    /\ exit_code = None

\* test_request: prompt = generate_test_prompt(length)
ReqGenerate ==
    /\ pc = "req_start"
    /\ prompt' = GenerateTestPrompt(req_length)
    /\ pc' = "req_built"
    /\ UNCHANGED << outstanding, exit_code, req_length, response, result >>
    /\ searchUnchanged

\* test_request: the POST is sent.
ReqSend ==
    /\ pc = "req_built"
    /\ outstanding' = outstanding + 1
    /\ pc' = "req_wait"
    /\ UNCHANGED << exit_code, req_length, prompt, response, result >>
    /\ searchUnchanged

\* test_request: the POST is over; the call returns or raises.
ReqAnswer ==
    /\ pc = "req_wait"
    /\ result' = ProbeEffect(response)
    /\ outstanding' = outstanding - 1
    /\ pc' = "req_done"
    /\ UNCHANGED << exit_code, req_length, prompt, response >>
    /\ searchUnchanged

Next ==
    \/ LoadConfig
    \/ NoApiKey
    \/ StartPhase1
    \/ Interrupt
    \/ P1Test
    \/ P1LoopExit
    \/ P1Response
    \/ P1Sleep
    \/ AllFailed
    \/ CallBinarySearch
    \/ SkipPhase2
    \/ BsTest
    \/ BsResponse
    \/ BsSleep
    \/ BsReturn
    \/ P2Assign
    \/ Report

NextBS ==
    \/ BsTest
    \/ BsResponse
    \/ BsSleep
    \/ BsReturn

NextRequest ==
    \/ ReqGenerate
    \/ ReqSend
    \/ ReqAnswer

Spec == Init /\ [][Next]_vars

SpecRequest == InitRequest /\ [][NextRequest]_vars

SpecBS == InitBS /\ [][NextBS]_vars

\* The event loop resumes the coroutine after every await, so the loop of
\* binary_search always takes its next step.
FairSpecBS == InitBS /\ [][NextBS]_vars /\ WF_vars(NextBS)

(***************************************************************************)
(* Properties.                                                             *)
(***************************************************************************)

Phase1Log == SelectSeq(log, LAMBDA e : e.phase = 1)
Phase2Log == SelectSeq(log, LAMBDA e : e.phase = 2)

HasTrueLimit == limit # NoLimit
InBinarySearch == pc \in {"bs_loop", "bs_probe", "bs_sleep"}

\* C1: against an endpoint with a true limit T, whenever both bounds are
\* defined the lower bound is at most T and the upper bound is above T: in
\* Phase 1 for last_success_length and first_failure_length, in
\* binary_search for min_len and max_len after every update.
C1_BoundsBracketLimit ==
    HasTrueLimit =>
      /\ (pc = "p1_end" /\ last_success_length # None /\ first_failure_length # None)
            => (last_success_length <= limit /\ limit < first_failure_length)
      /\ InBinarySearch => (min_len <= limit /\ limit < max_len)

\* C2: every answered bisection probe was sent at floor((min_len + max_len) / 2);
\* a success moves the lower bound to exactly that midpoint and leaves the upper
\* bound alone, a failure moves the upper bound to exactly that midpoint and
\* leaves the lower bound alone.
C2_UpdatePolicy ==
    [][pc = "bs_probe" =>
         LET e == log'[Len(log')] IN
         /\ e.len = Midpoint(min_len, max_len)
         /\ e.ok => (min_len' = e.len /\ max_len' = max_len)
         /\ ~e.ok => (max_len' = e.len /\ min_len' = min_len)]_vars

\* C3: binary_search on its own, for any entry bounds min_len < max_len, any
\* positive step and any answers: the loop is left after finitely many probes,
\* and when it is left max_len - min_len <= step.
C3_Phase2Terminates ==
    /\ <>(pc = "bs_ret")
    /\ [](pc = "bs_ret" => max_len - min_len <= step)

C3_Witness ==
    /\ pc = "bs_ret"
    /\ Len(log) >= 2
    /\ max_len - min_len <= step
    /\ first_failure_length - last_success_length > step

\* C4: binary_search on its own, for any answers and any positive step: after
\* every iteration min_len < max_len, and both lie within the interval
\* [min_len, max_len] the function was called with.
C4_IntervalInvariant ==
    Len(Phase2Log) >= 1 =>
      /\ min_len < max_len
      /\ last_success_length <= min_len /\ min_len <= first_failure_length
      /\ last_success_length <= max_len /\ max_len <= first_failure_length

C4_Witness ==
    /\ Len(Phase2Log) >= 2
    /\ step = 1
    /\ min_len < max_len

\* Index of the last successful probe of the log, 0 if there is none.
LastOkIndex ==
    LET oks == {i \in 1 .. Len(log) : log[i].ok} IN
    IF oks = {} THEN 0 ELSE CHOOSE i \in oks : \A j \in oks : j <= i

\* C5: a reported maximum working length is the length of a probe that
\* succeeded in this run: the most recent successful probe (the Phase 1
\* success, or the last Phase 2 success if there is one), whatever the
\* endpoint answers.
C5_AnswerConfirmedGood ==
    reported # None =>
      /\ LastOkIndex >= 1
      /\ reported = log[LastOkIndex].len

C5_Witness ==
    /\ limit = NoLimit
    /\ reported # None
    /\ Len(Phase2Log) >= 2
    /\ log[LastOkIndex].phase = 2
    /\ ~log[Len(log)].ok

\* The smallest and the largest true limit that agree with every answer of
\* the log: T is at least every succeeded length and below every failed one.
\* Empty if no limit agrees or if no probe failed.
ConsistentLimitEnds ==
    LET oks   == {log[i].len : i \in {j \in 1 .. Len(log) : log[j].ok}}
        fails == {log[i].len : i \in {j \in 1 .. Len(log) : ~log[j].ok}}
        lo    == IF oks = {} THEN 0 ELSE CHOOSE x \in oks : \A y \in oks : y <= x
        hi    == (CHOOSE x \in fails : \A y \in fails : x <= y) - 1
    IN  IF fails = {} \/ lo > hi THEN {} ELSE {lo, hi}

\* C6: against an endpoint with a true limit T, when binary_search ran with
\* step 500 the reported length A satisfies A <= T and T - A <= 500.  Stated
\* for the endpoint's own limit, and for the extreme limits that agree with
\* the answers of a run (which covers every limit in between).
C6_WithinPrecision ==
    (step = PRECISION_STEP /\ reported # None) =>
      /\ HasTrueLimit => (reported <= limit /\ limit - reported <= PRECISION_STEP)
      /\ \A T \in ConsistentLimitEnds :
            reported <= T /\ T - reported <= PRECISION_STEP

C6_Witness ==
    /\ HasTrueLimit
    /\ step = PRECISION_STEP
    /\ reported # None
    /\ reported < limit
    /\ log[LastOkIndex].phase = 2

\* C7: the Phase 1 probes, in order, are STARTING_LENGTH, STARTING_LENGTH -
\* STEP_SIZE, STARTING_LENGTH - 2*STEP_SIZE, ...; only the last of them can be
\* a success, none is below MIN_LENGTH, and none follows a Phase 2 probe.
C7_Phase1Sequence ==
    LET p == Phase1Log IN
    /\ \A i \in 1 .. Len(p) :
         /\ p[i].len = STARTING_LENGTH - (i - 1) * STEP_SIZE
         /\ p[i].len >= MIN_LENGTH
         /\ p[i].ok => i = Len(p)
    /\ \A i \in 1 .. Len(log) : log[i].phase = 1 => i <= Len(p)
    /\ pc = "p1_probe" =>
         /\ current_length = STARTING_LENGTH - Len(p) * STEP_SIZE
         /\ current_length >= MIN_LENGTH
         /\ \A i \in 1 .. Len(p) : ~p[i].ok

C7_Witness ==
    /\ Len(Phase1Log) >= 3
    /\ Phase1Log[Len(Phase1Log)].ok
    /\ pc = "done"

\* Phase 1 ended with a success after at least one failed probe.
Phase1Bracketed == Len(Phase1Log) >= 2 /\ Phase1Log[Len(Phase1Log)].ok

\* C8: when Phase 1 ends with a success after at least one failure, the
\* known-good length is the succeeded length, the known-bad length is the most
\* recent failed length, which is STEP_SIZE above it; binary_search starts
\* with exactly these bounds and probes only lengths between them.
C8_Phase1Bracket ==
    Phase1Bracketed =>
      LET n    == Len(Phase1Log)
          good == Phase1Log[n].len
          bad  == Phase1Log[n - 1].len
      IN
      /\ bad = good + STEP_SIZE
      /\ first_failure_length = bad
      /\ pc \in {"p1_end", "bs_loop", "bs_probe", "bs_sleep", "bs_ret"}
            => last_success_length = good
      /\ (pc = "bs_loop" /\ Len(Phase2Log) = 0) => (min_len = good /\ max_len = bad)
      /\ \A i \in 1 .. Len(Phase2Log) :
            good <= Phase2Log[i].len /\ Phase2Log[i].len <= bad
      /\ pc = "bs_probe" => (good <= mid /\ mid <= bad)

C8_Witness ==
    /\ Phase1Bracketed
    /\ Len(Phase1Log) >= 3
    /\ Len(Phase2Log) >= 2
    /\ pc = "done"

\* C9: if the first probe succeeds, binary_search is never called, that probe
\* is the only one of the run and the reported length is STARTING_LENGTH; and
\* binary_search is called exactly when Phase 1 ended with a success after at
\* least one failure.
C9_ImmediateSuccess ==
    /\ (Len(log) >= 1 /\ log[1].ok) =>
         /\ Len(log) = 1
         /\ outstanding = 0
         /\ step = None
         /\ ~InBinarySearch
         /\ pc = "done" => reported = STARTING_LENGTH
    /\ step # None => Phase1Bracketed
    /\ (Phase1Bracketed /\ pc \in {"bs_loop", "bs_probe", "bs_sleep", "bs_ret",
                                    "report", "done"}) => step # None

C9_Witness ==
    /\ Len(log) = 1
    /\ log[1].ok
    /\ pc = "done"
    /\ reported = STARTING_LENGTH

\* The number of Phase 1 probes when every one of them fails.
ExhaustionProbes == (STARTING_LENGTH - MIN_LENGTH) \div STEP_SIZE + 1

AllProbesFailed == \A i \in 1 .. Len(log) : ~log[i].ok

\* C10: if every Phase 1 probe fails, Phase 1 ends after exactly
\* floor((STARTING_LENGTH - MIN_LENGTH) / STEP_SIZE) + 1 probes, the last one
\* at the smallest STARTING_LENGTH - k*STEP_SIZE that is >= MIN_LENGTH;
\* binary_search is not called, nothing is reported and the process ends
\* normally.
C10_Exhaustion ==
    AllProbesFailed =>
      /\ Len(log) <= ExhaustionProbes
      /\ step = None
      /\ ~InBinarySearch
      /\ reported = None
      /\ pc \in {"p1_end", "done"} =>
           /\ Len(log) = ExhaustionProbes
           /\ log[Len(log)].len >= MIN_LENGTH
           /\ log[Len(log)].len - STEP_SIZE < MIN_LENGTH
           /\ log[Len(log)].len = STARTING_LENGTH - (ExhaustionProbes - 1) * STEP_SIZE
           /\ outstanding = 0
      /\ pc = "done" => exit_code = 0

C10_Witness ==
    /\ AllProbesFailed
    /\ Len(log) = ExhaustionProbes
    /\ pc = "done"
    /\ exit_code = 0

\* C11: every answered probe, in Phase 1 or in binary_search, succeeded or
\* failed, is followed by the sleep before anything else happens; so no two
\* probes are sent without a sleep between them.
C11_DelayAfterEveryProbe ==
    [][Len(log') = Len(log) + 1 => pc' \in {"p1_sleep", "bs_sleep"}]_vars

\* C12: test_request returns True exactly when the endpoint answered with
\* status 200, whatever the body; another status, a timeout or a transport
\* failure returns False.
C12_Status200Succeeds ==
    pc = "req_done" =>
      /\ response \in {"status_200", "status_200_bad_body"} => result = "True"
      /\ response \in {"status_other", "timeout", "transport_error"} => result = "False"

\* C13: whatever the kind of failure, a failed probe changes the search in one
\* way only, so runs that fail at the same probes probe the same lengths,
\* make the same updates and report the same answer; no answer of the
\* endpoint, a timeout included, ends the run.
C13_FailureKindsAlike ==
    [][(pc \in {"p1_probe", "bs_probe"} /\ sigint' = sigint) =>
         /\ Len(log') = Len(log) + 1
         /\ exit_code' = None
         /\ reported' = reported
         /\ ~log'[Len(log')].ok =>
              IF pc = "p1_probe"
              THEN /\ log'[Len(log')] = [len |-> current_length, ok |-> FALSE, phase |-> 1]
                   /\ first_failure_length' = current_length
                   /\ current_length' = current_length - STEP_SIZE
                   /\ last_success_length' = last_success_length
                   /\ pc' = "p1_sleep"
              ELSE /\ log'[Len(log')] = [len |-> mid, ok |-> FALSE, phase |-> 2]
                   /\ max_len' = mid - 1
                   /\ min_len' = min_len
                   /\ last_success' = last_success
                   /\ pc' = "bs_sleep"]_vars

C13_Witness ==
    /\ pc = "done"
    /\ reported # None
    /\ ~log[1].ok
    /\ \E i \in 1 .. Len(Phase2Log) : ~Phase2Log[i].ok

\* C14: without an API key after load_config the process exits with status 1
\* and sends no probe; whenever a probe was sent the key was not empty.
C14_NoKeyNoProbe ==
    /\ (Len(log) >= 1 \/ outstanding >= 1) => API_KEY # ""
    /\ (pc # "start" /\ API_KEY = "") =>
         /\ Len(log) = 0
         /\ outstanding = 0
         /\ pc \in {"config_loaded", "exited", "crashed", "interrupted"}
    /\ (pc \in Terminal /\ API_KEY = "" /\ ~sigint) => exit_code = 1

C14_Witness ==
    /\ pc = "exited"
    /\ API_KEY = ""
    /\ exit_code = 1
    /\ Len(log) = 0

\* C15: once an interrupt was delivered, in whatever state, the process is
\* over with exit status 0; the interrupt is never taken for a failed probe.
C15_InterruptExitsCleanly ==
    sigint => (pc = "interrupted" /\ exit_code = 0 /\ outstanding = 0)

\* Interrupted while a binary_search probe was waiting for its answer.
C15_Witness ==
    /\ sigint
    /\ pc = "interrupted"
    /\ mid # None
    /\ \A i \in 1 .. Len(log) : log[i].len # mid

\* The characters a prompt may contain.
Alphabet ==
    {"a", "b", "c", "d", "e", "f", "g", "h", "i", "j", "k", "l", "m", "n", "o",
     "p", "q", "r", "s", "t", "u", "v", "w", "x", "y", "z"}
      \cup {"0", "1", "2", "3", "4", "5", "6", "7", "8", "9"} \cup {" "}

\* C16: generate_test_prompt(L) has exactly L characters, all of them
\* lowercase letters, digits or spaces; for L = 0 it is empty.
C16_PromptLengthAndAlphabet ==
    pc # "req_start" =>
      /\ Len(prompt) = req_length
      /\ \A i \in 1 .. Len(prompt) : prompt[i] \in Alphabet
      /\ req_length = 0 => prompt = << >>

C16_Witness ==
    /\ pc = "req_done"
    /\ Len(prompt) = 100
    /\ prompt[100] = "z"

\* C17 as stated: the prompt repeats a cycle of exactly 38 characters, so the
\* character at position i is the character at position i mod 38.
C17_CycleOf38 ==
    pc # "req_start" =>
      \A i \in 0 .. (Len(prompt) - 1) : prompt[i + 1] = prompt[(i % 38) + 1]

\* C17 amended: the prompt repeats base_text, a cycle of exactly 37
\* characters: the character at position i is base_text's at position i mod 37.
C17_CycleOf37 ==
    /\ Len(base_text) = 37
    /\ pc # "req_start" =>
         \A i \in 0 .. (Len(prompt) - 1) : prompt[i + 1] = base_text[(i % 37) + 1]

C17_Witness ==
    /\ pc = "req_done"
    /\ Len(prompt) >= 39
    /\ prompt[38] = "a"
    /\ prompt[39] = "b"

\* C18: at most one request is outstanding, and a request is sent only when
\* every earlier probe has returned and its sleep is over.
C18_StrictlySequential ==
    /\ outstanding <= 1
    /\ pc \in {"p1_probe", "bs_probe"} => (outstanding = 1 /\ delays = Len(log))

\* C19: over a whole run no length is probed twice, the probe in flight
\* included.
C19_NoLengthProbedTwice ==
    /\ \A i, j \in 1 .. Len(log) : i # j => log[i].len # log[j].len
    /\ pc = "p1_probe" => \A i \in 1 .. Len(log) : log[i].len # current_length
    /\ pc = "bs_probe" => \A i \in 1 .. Len(log) : log[i].len # mid

C19_Witness ==
    /\ pc = "done"
    /\ Len(Phase1Log) >= 3
    /\ Len(Phase2Log) >= 5
    /\ \E i \in 1 .. Len(Phase2Log) : Phase2Log[i].ok
    /\ \E i \in 1 .. Len(Phase2Log) : ~Phase2Log[i].ok

====
